---- MODULE Spec2Model ----
(***************************************************************************)
(* Form 16 field extraction (src/file_return.js) and the Form 16 analysis  *)
(* page (src/form_16_20255.js).                                            *)
(*                                                                         *)
(* extractDetails(text) applies fifteen regular expressions to the         *)
(* linearized PDF text and returns an object literal with one property per *)
(* field.  The regular expressions are modelled by a small backtracking    *)
(* matcher that follows the ECMAScript matching order (leftmost start,     *)
(* alternatives left to right, greedy quantifiers longest first, lazy      *)
(* quantifiers shortest first), so that the value of a capture group is    *)
(* the one String.prototype.match reports.                                 *)
(*                                                                         *)
(* Strings are TLA+ strings; the character at index i of s is              *)
(* SubSeq(s, i, i).  Indices are 1-based.                                  *)
(***************************************************************************)
EXTENDS Naturals, Integers, Sequences, FiniteSets, TLC

\* a call of a function of src/file_return.js: its argument, its position
\* and the value it returned
VARIABLES input, pc, result

\* the page of src/file_return.js: the #loader and #result elements ("hidden"
\* or "shown"), the content of #output, and the runs of the change handler
\* that are suspended at an await
VARIABLES loader, resultPanel, output, runs

\* the page of src/form_16_20255.js: the file chosen in #pdfUpload, the text of
\* #status, the content of #output, the two module variables, the disabled
\* flags of the three buttons, and the handler calls suspended at an await (a
\* call suspended at "fetch" is a request in flight)
VARIABLES pdfUploadEl, statusEl, outputEl, lastAnalysisData, lastUploadedFile,
          btnGenerate, btnShowOriginal, btnDownloadPng, calls

callVars == <<input, pc, result>>
pageVars == <<loader, resultPanel, output, runs>>
formVars == <<pdfUploadEl, statusEl, outputEl, lastAnalysisData, lastUploadedFile,
              btnGenerate, btnShowOriginal, btnDownloadPng, calls>>
vars == <<callVars, pageVars, formVars>>

----------------------------------------------------------------------------
(* Characters and character classes                                        *)

Ch(s, i) == SubSeq(s, i, i)

LowerLetters == "abcdefghijklmnopqrstuvwxyz"
UpperLetters == "ABCDEFGHIJKLMNOPQRSTUVWXYZ"
DigitChars == "0123456789"

CharsOf(s) == {Ch(s, i) : i \in 1..Len(s)}

LowerSet == CharsOf(LowerLetters)
UpperSet == CharsOf(UpperLetters)
DigitSet == CharsOf(DigitChars)
AlnumSet == LowerSet \cup UpperSet \cup DigitSet

\* WhiteSpace and LineTerminator characters (what \s matches and trim strips)
SpaceSet == {" ", "\n", "\t", "\r", "\f"}
\* LineTerminator characters (what . does not match)
LineTerminatorSet == {"\n", "\r"}

\* Canonicalize of the ignoreCase flag: the upper-case form of a character
UpperOf == [c \in LowerSet |-> Ch(UpperLetters, CHOOSE i \in 1..26 : Ch(LowerLetters, i) = c)]
Canonicalize(c) == IF c \in LowerSet THEN UpperOf[c] ELSE c

\* class names used by the rules:
\*   "space" \s   "any" [\s\S]   "dot" .   "sep" [:\-]
\*   "alnum" [A-Z0-9] under the i flag   "digit" \d   "digcomma" [\d,]
InClass(c, cls) ==
    CASE cls = "space" -> c \in SpaceSet
      [] cls = "any" -> TRUE
      [] cls = "dot" -> c \notin LineTerminatorSet
      [] cls = "sep" -> c \in {":", "-"}
      [] cls = "alnum" -> c \in AlnumSet
      [] cls = "digit" -> c \in DigitSet
      [] cls = "digcomma" -> c \in DigitSet \cup {","}

----------------------------------------------------------------------------
(* Regular expressions: a pattern is a sequence of items                   *)

\* Lit: literal characters; Cls: a character class under a quantifier {min,max}
\* (bounded = FALSE: no upper limit), greedy or lazy; Grp: a group of alternatives,
\* optional or not, capturing or not
Lit(s) == [k |-> "lit", s |-> s]
Cls(c, min, max, bounded, lazy) ==
    [k |-> "cls", c |-> c, min |-> min, max |-> max, bounded |-> bounded, lazy |-> lazy]
Star(c) == Cls(c, 0, 0, FALSE, FALSE)
LazyStar(c) == Cls(c, 0, 0, FALSE, TRUE)
Plus(c) == Cls(c, 1, 1, FALSE, FALSE)
Opt(c) == Cls(c, 0, 1, TRUE, FALSE)
Times(c, n) == Cls(c, n, n, TRUE, FALSE)
Between(c, min, max) == Cls(c, min, max, TRUE, FALSE)
Grp(alts, opt, cap) == [k |-> "grp", alts |-> alts, opt |-> opt, cap |-> cap]
Close(cap, start) == [k |-> "close", cap |-> cap, start |-> start]

NoCapture == <<>>
Failure == [ok |-> FALSE, end |-> 0, cap |-> NoCapture]

\* the literal s occurs at index i of text, compared under the i flag
LitAt(text, s, i) ==
    /\ i + Len(s) - 1 <= Len(text)
    /\ \A j \in 1..Len(s) : Canonicalize(Ch(text, i + j - 1)) = Canonicalize(Ch(s, j))

RECURSIVE RunLen(_, _, _, _, _)
\* number of consecutive characters of class cls from index i (at most max when bounded)
RunLen(text, cls, i, bounded, max) ==
    IF (bounded /\ max = 0) \/ i > Len(text) \/ ~InClass(Ch(text, i), cls)
    THEN 0
    ELSE 1 + RunLen(text, cls, i + 1, bounded, IF bounded THEN max - 1 ELSE max)

RECURSIVE Run(_, _, _, _)
RECURSIVE TryCounts(_, _, _, _, _, _, _, _)
RECURSIVE TryAlts(_, _, _, _, _, _)

\* the first successful way, in backtracking order, to match items at index i
Run(text, items, i, cap) ==
    IF Len(items) = 0
    THEN [ok |-> TRUE, end |-> i, cap |-> cap]
    ELSE LET h == Head(items)
             r == Tail(items)
         IN  CASE h.k = "lit" ->
                    IF LitAt(text, h.s, i) THEN Run(text, r, i + Len(h.s), cap) ELSE Failure
               [] h.k = "cls" ->
                    LET avail == RunLen(text, h.c, i, h.bounded, h.max)
                    IN  IF avail < h.min
                        THEN Failure
                        ELSE TryCounts(text, r, i, cap, IF h.lazy THEN h.min ELSE avail,
                                       h.min, avail, h.lazy)
               [] h.k = "grp" -> TryAlts(text, h, r, i, cap, 1)
               [] h.k = "close" ->
                    Run(text, r, i, IF h.cap THEN <<h.start, i>> ELSE cap)

\* a quantified class taking c characters, then the rest; on failure the next count
TryCounts(text, r, i, cap, c, lo, hi, lazy) ==
    LET res == Run(text, r, i + c, cap)
    IN  IF res.ok THEN res
        ELSE IF lazy
             THEN IF c < hi THEN TryCounts(text, r, i, cap, c + 1, lo, hi, lazy) ELSE Failure
             ELSE IF c > lo THEN TryCounts(text, r, i, cap, c - 1, lo, hi, lazy) ELSE Failure

\* the alternatives of a group left to right, then (optional group) skipping it
TryAlts(text, h, r, i, cap, a) ==
    IF a > Len(h.alts)
    THEN IF h.opt THEN Run(text, r, i, cap) ELSE Failure
    ELSE LET res == Run(text, h.alts[a] \o <<Close(h.cap, i)>> \o r, i, cap)
         IN  IF res.ok THEN res ELSE TryAlts(text, h, r, i, cap, a + 1)

NoMatch == [found |-> FALSE, index |-> 0, end |-> 0, cap |-> NoCapture]

RECURSIVE Search(_, _, _)
Search(text, regex, i) ==
    IF i > Len(text) + 1
    THEN NoMatch
    ELSE LET res == Run(text, regex, i, NoCapture)
         IN  IF res.ok
             THEN [found |-> TRUE, index |-> i, end |-> res.end, cap |-> res.cap]
             ELSE Search(text, regex, i + 1)

\* the match starting at the rightmost index at which the regex matches
MatchLast(text, regex) ==
    LET starts == {i \in 1..(Len(text) + 1) : Run(text, regex, i, NoCapture).ok}
        last == CHOOSE i \in starts : \A j \in starts : j <= i
        res == Run(text, regex, last, NoCapture)
    IN  IF starts = {}
        THEN NoMatch
        ELSE [found |-> TRUE, index |-> last, end |-> res.end, cap |-> res.cap]
\* text.match(regex) for a regex without the g flag
Match(text, regex) == Search(text, regex, 1)

\* match[1]: the text of capture group 1
Group1(text, m) == SubSeq(text, m.cap[1], m.cap[2] - 1)

----------------------------------------------------------------------------
(* extractDetails and its helper extract (src/file_return.js:101-137)      *)

NotFound == "Not Found"

RECURSIVE TrimStart(_)
TrimStart(s) == IF Len(s) > 0 /\ Ch(s, 1) \in SpaceSet THEN TrimStart(SubSeq(s, 2, Len(s))) ELSE s

RECURSIVE TrimEnd(_)
TrimEnd(s) ==
    IF Len(s) > 0 /\ Ch(s, Len(s)) \in SpaceSet THEN TrimEnd(SubSeq(s, 1, Len(s) - 1)) ELSE s

\* String.prototype.trim
Trim(s) == TrimEnd(TrimStart(s))

\* s.replace(/^[^a-zA-Z0-9]/, ''): one character, not the whole run
StripFirstNonAlnum(s) ==
    IF Len(s) > 0 /\ Ch(s, 1) \notin AlnumSet THEN SubSeq(s, 2, Len(s)) ELSE s

RECURSIVE StripLeadingNonAlnum(_)
\* s.replace(/^[^a-zA-Z0-9]+/, '')
StripLeadingNonAlnum(s) ==
    IF Len(s) > 0 /\ Ch(s, 1) \notin AlnumSet
    THEN StripLeadingNonAlnum(SubSeq(s, 2, Len(s)))
    ELSE s

\* match[1].trim(): the leading non-alphanumeric run is kept
CleanTrimOnly(raw) == Trim(raw)
\* match[1].trim().replace(/^[^a-zA-Z0-9]+/, '').trim()
Clean(raw) == Trim(StripLeadingNonAlnum(Trim(raw)))

\* the helper extract: match && match[1] ? cleaned : "Not Found".
\* A pattern without a capture group leaves match[1] undefined; an empty
\* capture is falsy as well.
extract(text, regex) ==
    LET match == Match(text, regex)
    IN  IF match.found /\ match.cap # NoCapture /\ Group1(text, match) # ""
        THEN Clean(Group1(text, match))
        ELSE NotFound

\* /([\d,]+\.\d{2})/
currencyRegex == <<Grp(<< <<Plus("digcomma"), Lit("."), Times("digit", 2)>> >>, FALSE, TRUE)>>

\* \s*  and  (?:the\s*)?
Ws == Star("space")
\* "the" required: (?:the\s*)
TheRequired == Grp(<< <<Lit("the"), Ws>> >>, FALSE, FALSE)
OptThe == Grp(<< <<Lit("the"), Ws>> >>, TRUE, FALSE)
\* anything at all between label and token: [\s\S]*?
SeparatorAnyGap == <<LazyStar("any")>>
\* \s*[:\-]?\s*
Separator == <<Ws, Opt("sep"), Ws>>
\* ([A-Z0-9]{10})
IdToken == <<Grp(<< <<Times("alnum", 10)>> >>, FALSE, TRUE)>>
\* [\s\S]*?
Gap == <<LazyStar("any")>>

\* Each rule is written as its label part followed by the rest of the pattern.

\* /Name\s*of\s*(?:the\s*)?Employer[\s\S]*?TAN/i
employerNameLabel == <<Lit("Name"), Ws, Lit("of"), Ws, OptThe, Lit("Employer")>>
employerNameRegex == employerNameLabel \o Gap \o <<Lit("TAN")>>

\* /TAN\s*[:\-]?\s*([A-Z0-9]{10})/i
TANLabel == <<Lit("TAN")>>
\* the TAN rule with its label made optional: /(?:TAN)?\s*[:\-]?\s*([A-Z0-9]{10})/i
TANRegexLabelOptional == <<Grp(<<TANLabel>>, TRUE, FALSE)>> \o Separator \o IdToken
TANRegex == TANLabel \o Separator \o IdToken

\* /PAN\s*of\s*(?:the\s*)?Deductor\s*[:\-]?\s*([A-Z0-9]{10})/i
employerPANLabel == <<Lit("PAN"), Ws, Lit("of"), Ws, OptThe, Lit("Deductor")>>
employerPANRegex == employerPANLabel \o Separator \o IdToken

\* /Name\s*of\s*(?:the\s*)?Employee[\s\S]*?PAN/i
employeeNameLabel == <<Lit("Name"), Ws, Lit("of"), Ws, OptThe, Lit("Employee")>>
employeeNameRegex == employeeNameLabel \o Gap \o <<Lit("PAN")>>

\* /PAN\s*of\s*(?:the\s*)?Employee\s*[:\-]?\s*([A-Z0-9]{10})/i
employeePANLabel == <<Lit("PAN"), Ws, Lit("of"), Ws, OptThe, Lit("Employee")>>
employeePANRegex == employeePANLabel \o Separator \o IdToken

\* /Assessment\s*Year\s*[:\-]?\s*(\d{4}-\d{2,4})/i
assessmentYearLabel == <<Lit("Assessment"), Ws, Lit("Year")>>
assessmentYearRegex ==
    assessmentYearLabel \o Separator \o
        <<Grp(<< <<Times("digit", 4), Lit("-"), Between("digit", 2, 4)>> >>, FALSE, TRUE)>>

\* "Gross\\s*Salary[\\s\\S]*?" + currencyRegex.source
grossSalaryLabel == <<Lit("Gross"), Ws, Lit("Salary")>>
grossSalaryRegex == grossSalaryLabel \o Gap \o currencyRegex

\* "Standard\\s*Deduction.*?u/s\\s*16\\(ia\\)[\\s\\S]*?" + currencyRegex.source
standardDeductionLabel ==
    <<Lit("Standard"), Ws, Lit("Deduction"), LazyStar("dot"), Lit("u/s"), Ws, Lit("16(ia)")>>
standardDeductionRegex == standardDeductionLabel \o Gap \o currencyRegex

\* "(?:Tax\\s*on\\s*employment|Professional\\s*Tax).*?u/s\\s*16\\(iii\\)[\\s\\S]*?"
\*     + currencyRegex.source
professionalTaxLabel ==
    <<Grp(<< <<Lit("Tax"), Ws, Lit("on"), Ws, Lit("employment")>>,
             <<Lit("Professional"), Ws, Lit("Tax")>> >>, FALSE, FALSE),
      LazyStar("dot"), Lit("u/s"), Ws, Lit("16(iii)")>>
professionalTaxRegex == professionalTaxLabel \o Gap \o currencyRegex

\* "Income\\s*chargeable\\s*under\\s*the\\s*head\\s*'Salaries'[\\s\\S]*?" + currencyRegex.source
incomeChargeableLabel ==
    <<Lit("Income"), Ws, Lit("chargeable"), Ws, Lit("under"), Ws, Lit("the"), Ws, Lit("head"),
      Ws, Lit("'Salaries'")>>
incomeChargeableRegex == incomeChargeableLabel \o Gap \o currencyRegex

\* "Aggregate\\s*of\\s*deductible\\s*amount\\s*under\\s*Chapter\\s*VI-A[\\s\\S]*?"
\*     + currencyRegex.source
totalDeductionsVIALabel ==
    <<Lit("Aggregate"), Ws, Lit("of"), Ws, Lit("deductible"), Ws, Lit("amount"), Ws,
      Lit("under"), Ws, Lit("Chapter"), Ws, Lit("VI-A")>>
totalDeductionsVIARegex == totalDeductionsVIALabel \o Gap \o currencyRegex

\* "Total\\s*Taxable\\s*Income[\\s\\S]*?" + currencyRegex.source
totalTaxableIncomeLabel == <<Lit("Total"), Ws, Lit("Taxable"), Ws, Lit("Income")>>
totalTaxableIncomeRegex == totalTaxableIncomeLabel \o Gap \o currencyRegex

\* "Tax\\s*on\\s*total\\s*income[\\s\\S]*?" + currencyRegex.source
taxOnTotalIncomeLabel == <<Lit("Tax"), Ws, Lit("on"), Ws, Lit("total"), Ws, Lit("income")>>
taxOnTotalIncomeRegex == taxOnTotalIncomeLabel \o Gap \o currencyRegex

\* "Health\\s*and\\s*Education\\s*Cess[\\s\\S]*?" + currencyRegex.source
cessLabel == <<Lit("Health"), Ws, Lit("and"), Ws, Lit("Education"), Ws, Lit("Cess")>>
cessRegex == cessLabel \o Gap \o currencyRegex

\* "Total\\s*Tax\\s*Deducted(?:\\s*at\\s*Source)?[\\s\\S]*?" + currencyRegex.source
totalTDSLabel ==
    <<Lit("Total"), Ws, Lit("Tax"), Ws, Lit("Deducted"),
      Grp(<< <<Ws, Lit("at"), Ws, Lit("Source")>> >>, TRUE, FALSE)>>
totalTDSRegex == totalTDSLabel \o Gap \o currencyRegex

Prop(key, value) == [key |-> key, value |-> value]

\* RuleTable with the TAN and employerPAN properties written in the other order
RuleTableSwapped ==
    << <<"employerName", employerNameRegex>>,
       <<"employerPAN", employerPANRegex>>,
       <<"TAN", TANRegex>>,
       <<"employeeName", employeeNameRegex>>,
       <<"employeePAN", employeePANRegex>>,
       <<"assessmentYear", assessmentYearRegex>>,
       <<"grossSalary", grossSalaryRegex>>,
       <<"standardDeduction", standardDeductionRegex>>,
       <<"professionalTax", professionalTaxRegex>>,
       <<"incomeChargeable", incomeChargeableRegex>>,
       <<"totalDeductionsVIA", totalDeductionsVIARegex>>,
       <<"totalTaxableIncome", totalTaxableIncomeRegex>>,
       <<"taxOnTotalIncome", taxOnTotalIncomeRegex>>,
       <<"cess", cessRegex>>,
       <<"totalTDS", totalTDSRegex>> >>

\* the properties of the object literal, in the order they are written
RuleTable ==
    << <<"employerName", employerNameRegex>>,
       <<"TAN", TANRegex>>,
       <<"employerPAN", employerPANRegex>>,
       <<"employeeName", employeeNameRegex>>,
       <<"employeePAN", employeePANRegex>>,
       <<"assessmentYear", assessmentYearRegex>>,
       <<"grossSalary", grossSalaryRegex>>,
       <<"standardDeduction", standardDeductionRegex>>,
       <<"professionalTax", professionalTaxRegex>>,
       <<"incomeChargeable", incomeChargeableRegex>>,
       <<"totalDeductionsVIA", totalDeductionsVIARegex>>,
       <<"totalTaxableIncome", totalTaxableIncomeRegex>>,
       <<"taxOnTotalIncome", taxOnTotalIncomeRegex>>,
       <<"cess", cessRegex>>,
       <<"totalTDS", totalTDSRegex>> >>

IsMatched(p) == p.value # NotFound

\* extractDetails leaving out the fields whose rule did not match
extractDetailsOmitUnmatched(text) ==
    SelectSeq([i \in 1..Len(RuleTable) |-> Prop(RuleTable[i][1], extract(text, RuleTable[i][2]))],
              IsMatched)

\* the object extractDetails returns, as the sequence of its properties in
\* insertion order: each property is evaluated by a call of extract
extractDetails(text) ==
    [i \in 1..Len(RuleTable) |-> Prop(RuleTable[i][1], extract(text, RuleTable[i][2]))]

\* obj[key]
Get(obj, key) ==
    IF \E i \in 1..Len(obj) : obj[i].key = key
    THEN obj[CHOOSE i \in 1..Len(obj) : obj[i].key = key].value
    ELSE "undefined"

\* Object.keys(obj)
Keys(obj) == [i \in 1..Len(obj) |-> obj[i].key]

----------------------------------------------------------------------------
(* displayReport's field list (src/file_return.js:55-74)                   *)

Header(label) == [type |-> "header", key |-> "", label |-> label]
Field(key, label) == [type |-> "field", key |-> key, label |-> label]

reportFields ==
    << Header("Personal & Employer Information"),
       Field("employeeName", "Employee Name"),
       Field("employeePAN", "Employee PAN"),
       Field("employerName", "Employer Name"),
       Field("employerPAN", "Employer PAN"),
       Field("TAN", "TAN"),
       Field("assessmentYear", "Assessment Year"),
       Header("Income & Deductions"),
       Field("grossSalary", "Gross Salary"),
       Field("standardDeduction", "Standard Deduction u/s 16(ia)"),
       Field("professionalTax", "Professional Tax u/s 16(iii)"),
       Field("incomeChargeable", "Income Chargeable under Salaries"),
       Field("totalDeductionsVIA", "Deductions under Chapter VI-A"),
       Field("totalTaxableIncome", "Total Taxable Income"),
       Header("Tax Calculation"),
       Field("taxOnTotalIncome", "Tax on Total Income"),
       Field("cess", "Health & Education Cess"),
       Field("totalTDS", "Total Tax Deducted (TDS)") >>

IsFieldRow(row) == row.type # "header"

\* the field keys in the order the report lists them
CanonicalOrder == Keys(SelectSeq(reportFields, IsFieldRow))
CanonicalFieldNames == {CanonicalOrder[i] : i \in 1..Len(CanonicalOrder)}

NameFields == {"employerName", "employeeName"}
IdentifierFields == {"TAN", "employerPAN", "employeePAN"}
MonetaryFields ==
    {"grossSalary", "standardDeduction", "professionalTax", "incomeChargeable",
     "totalDeductionsVIA", "totalTaxableIncome", "taxOnTotalIncome", "cess", "totalTDS"}

\* the pattern of a field's rule, and its label part
RegexOf(f) == RuleTable[CHOOSE i \in 1..Len(RuleTable) : RuleTable[i][1] = f][2]

LabelOf(f) ==
    CASE f = "employerName" -> employerNameLabel
      [] f = "TAN" -> TANLabel
      [] f = "employerPAN" -> employerPANLabel
      [] f = "employeeName" -> employeeNameLabel
      [] f = "employeePAN" -> employeePANLabel
      [] f = "assessmentYear" -> assessmentYearLabel
      [] f = "grossSalary" -> grossSalaryLabel
      [] f = "standardDeduction" -> standardDeductionLabel
      [] f = "professionalTax" -> professionalTaxLabel
      [] f = "incomeChargeable" -> incomeChargeableLabel
      [] f = "totalDeductionsVIA" -> totalDeductionsVIALabel
      [] f = "totalTaxableIncome" -> totalTaxableIncomeLabel
      [] f = "taxOnTotalIncome" -> taxOnTotalIncomeLabel
      [] f = "cess" -> cessLabel
      [] f = "totalTDS" -> totalTDSLabel

----------------------------------------------------------------------------
(* Inputs: texts put together from label phrases and from what follows a   *)
(* label (separators, values, other text), taken alternately               *)

MaxFrags == 2

LabelFragments ==
    { "", "Name of the Employer", "Name of Employer", "TAN", "PAN of the Deductor",
      "Name of the Employee", "PAN of the Employee", "PAN of Employee", "Assessment Year",
      "Gross Salary", "Standard Deduction u/s 16(ia)", "Tax on employment u/s 16(iii)",
      "Professional Tax u/s 16(iii)", "Income chargeable under the head 'Salaries'",
      "Aggregate of deductible amount under Chapter VI-A", "Total Taxable Income",
      "Tax on total income", "Health and Education Cess", "Total Tax Deducted",
      "Total Tax Deducted at Source" }

TailFragments ==
    { "", ": Acme Corp TAN: ABCDE1234F", " - ABCDE1234FGH", " 2024-25\n",
      "\n(a) as per provisions...\n1,23,456.00", " ... 2,000.00 ", " 1,,2.00", " ,.00 ",
      ": ABCDE1234F Rs. 50,000.00\n" }

\* the fragments the n-th place of a text is taken from
FragmentsAt(n) == IF n % 2 = 1 THEN LabelFragments ELSE TailFragments

RECURSIVE TextsOf(_)
\* the texts made of n fragments
TextsOf(n) == IF n = 0 THEN {""} ELSE {t \o f : t \in TextsOf(n - 1), f \in FragmentsAt(n)}

Texts == TextsOf(MaxFrags)

StringInput(s) == [type |-> "string", str |-> s]
NullInput == [type |-> "null", str |-> ""]
UndefinedInput == [type |-> "undefined", str |-> ""]

Inputs == {StringInput(t) : t \in Texts} \cup {NullInput, UndefinedInput}

----------------------------------------------------------------------------
(* JavaScript values the two pages hold: null, the number 0, and objects   *)
(* (their properties in insertion order)                                   *)

JSValue(t, props) == [t |-> t, props |-> props]
JSNull == JSValue("null", <<>>)
JSZero == JSValue("zero", <<>>)
JSObject(props) == JSValue("object", props)

\* !v
Falsy(v) == v.t \in {"null", "zero"}

Disabled(b) == [disabled |-> b]

\* the page of src/file_return.js before a file is chosen
PageInit ==
    /\ loader = "hidden"
    /\ resultPanel = "hidden"
    /\ output = <<>>
    /\ runs = <<>>

\* the page of src/form_16_20255.js after the script has run
FormInit ==
    /\ pdfUploadEl = JSNull
    /\ statusEl = ""
    /\ outputEl = <<>>
    /\ lastAnalysisData = JSNull
    /\ lastUploadedFile = JSNull
    /\ btnGenerate = Disabled(TRUE)
    /\ btnShowOriginal = Disabled(FALSE)
    /\ btnDownloadPng = Disabled(TRUE)
    /\ calls = <<>>

----------------------------------------------------------------------------
(* The call extractDetails(input)                                          *)

Init ==
    /\ input \in Inputs
    /\ pc = "call"
    /\ result = <<>>
    /\ PageInit
    /\ FormInit

\* text is a string: every extract call runs and the object literal is returned
ExtractDetailsReturns ==
    /\ pc = "call"
    /\ input.type = "string"
    /\ result' = extractDetails(input.str)
    /\ pc' = "returned"
    /\ UNCHANGED <<input, pageVars, formVars>>

\* text is null or undefined: the first text.match(regex) throws a TypeError
ExtractDetailsThrows ==
    /\ pc = "call"
    /\ input.type # "string"
    /\ pc' = "threw"
    /\ UNCHANGED <<input, result, pageVars, formVars>>

Next == ExtractDetailsReturns \/ ExtractDetailsThrows

Spec == Init /\ [][Next]_vars

----------------------------------------------------------------------------
(* Properties of extractDetails                                            *)

Returned == pc = "returned"
Value(f) == Get(result, f)
AllNotFound == Len(result) = 15 /\ \A i \in 1..Len(result) : result[i].value = NotFound
LabelOccurs(text, f) == Match(text, LabelOf(f)).found

\* C1: for every input string, the empty string included, extractDetails
\* returns a mapping whose keys are exactly the 15 canonical field names, each
\* present exactly once, whether or not the field's rule matched.
C1_Totality ==
    (input.type = "string" /\ pc # "call") =>
        /\ pc = "returned"
        /\ Len(result) = 15
        /\ {result[i].key : i \in 1..Len(result)} = CanonicalFieldNames
        /\ \A i, j \in 1..Len(result) : result[i].key = result[j].key => i = j

\* a returned mapping in which some rule matched and some rule did not
C1_Witness ==
    /\ Returned
    /\ \E f \in IdentifierFields \cup MonetaryFields : Value(f) # NotFound
    /\ \E f \in IdentifierFields \cup MonetaryFields : Value(f) = NotFound

\* C4: extractDetails never throws; for a non-text value (null, undefined) or
\* an empty text it returns the full mapping with every field "Not Found".
C4_NeverThrows ==
    /\ pc # "threw"
    /\ (Returned /\ (input.type # "string" \/ input.str = "")) => AllNotFound

\* C5: a field whose label phrase does not occur in the text is "Not Found";
\* so when the text contains none of the rules' label phrases, every one of
\* the 15 values is "Not Found".
C5_NoLabelNotFound ==
    Returned =>
        /\ Len(result) = 15
        /\ \A f \in CanonicalFieldNames : ~LabelOccurs(input.str, f) => Value(f) = NotFound

\* a text with an identifier token and an amount in it but no label phrase
C5_Witness ==
    /\ Returned
    /\ Match(input.str, IdToken).found
    /\ Match(input.str, currencyRegex).found
    /\ \A f \in CanonicalFieldNames : ~LabelOccurs(input.str, f)
    /\ AllNotFound

\* C6 as stated: the keys of the returned mapping are enumerated in the
\* canonical order, the order in which the report lists the fields.
C6_KeysInReportOrder == Returned => Keys(result) = CanonicalOrder

\* C6 amended: the keys are enumerated in the order employerName, TAN,
\* employerPAN, employeeName, employeePAN, then assessmentYear and the nine
\* monetary fields as the report lists them (canonical positions 6 to 15).
C6_KeysInLiteralOrder ==
    Returned =>
        Keys(result) = <<"employerName", "TAN", "employerPAN", "employeeName", "employeePAN">>
                           \o SubSeq(CanonicalOrder, 6, 15)

\* a returned mapping whose identity fields are not in the report's order
C6_Witness ==
    /\ Returned
    /\ Len(result) = 15
    /\ \E i \in 1..5 : result[i].key # CanonicalOrder[i]
    /\ \A i \in 6..15 : result[i].key = CanonicalOrder[i]

----------------------------------------------------------------------------
(* Name, monetary and identifier fields                                    *)

\* the rule of a name field as the label, the captured span and the anchor:
\* label([\s\S]*?)anchor
SpanRegex(f, anchor) == LabelOf(f) \o <<Grp(<<Gap>>, FALSE, TRUE)>> \o <<Lit(anchor)>>

AnchorOf(f) == IF f = "employerName" THEN "TAN" ELSE "PAN"

AcmeText == "Name of the Employer: Acme Corp TAN: ABCDE1234F"

\* C2: for a name field, when the text has the label "Name of [the] Employer"
\* (Employee) followed later by the anchor "TAN" ("PAN"), the value is the
\* cleaned span between the label and the nearest following anchor; for the
\* text "Name of the Employer: Acme Corp TAN: ABCDE1234F" employerName is
\* "Acme Corp" and TAN is "ABCDE1234F".
C2_NameIsSpanBeforeAnchor ==
    Returned =>
        /\ \A f \in NameFields :
              LET m == Match(input.str, SpanRegex(f, AnchorOf(f)))
              IN  (m.found /\ Clean(Group1(input.str, m)) # "") =>
                      Value(f) = Clean(Group1(input.str, m))
        /\ input.str = AcmeText => Value("employerName") = "Acme Corp" /\ Value("TAN") = "ABCDE1234F"

\* s has the Currency Pattern form: digit groups separated by single commas,
\* a point, exactly two digits
IsCurrency(s) ==
    LET n == Len(s)
    IN  /\ n >= 4
        /\ Ch(s, n - 2) = "."
        /\ Ch(s, n - 1) \in DigitSet /\ Ch(s, n) \in DigitSet
        /\ \A i \in 1..(n - 3) : Ch(s, i) \in DigitSet \cup {","}
        /\ Ch(s, 1) \in DigitSet /\ Ch(s, n - 3) \in DigitSet
        /\ \A i \in 1..(n - 4) : ~(Ch(s, i) = "," /\ Ch(s, i + 1) = ",")

\* the currency amount that starts at index p of text, "" when none does:
\* the digits and commas from p up to a point, the point and two digits
AmountAt(text, p) ==
    LET q == p + RunLen(text, "digcomma", p, FALSE, 0)
        s == SubSeq(text, p, q + 2)
    IN  IF q + 2 <= Len(text) /\ IsCurrency(s) THEN s ELSE ""

AmountStarts(text, k) == {p \in k..Len(text) : AmountAt(text, p) # ""}

\* the first currency amount at or after index k
FirstAmountFrom(text, k) ==
    LET p == CHOOSE p \in AmountStarts(text, k) : \A r \in AmountStarts(text, k) : p <= r
    IN  AmountAt(text, p)

\* C3: for each monetary field, if the field's label phrase occurs in the text
\* and a currency amount occurs anywhere after it, the value is the first
\* currency amount after the label, whatever lies between them.
C3_FirstAmountAfterLabel ==
    Returned =>
        \A f \in MonetaryFields :
            LET m == Match(input.str, LabelOf(f))
            IN  (m.found /\ AmountStarts(input.str, m.end) # {}) =>
                    Value(f) = FirstAmountFrom(input.str, m.end)

\* C9: every monetary value that is not "Not Found" has the Currency Pattern
\* form (digit groups separated by single commas, ".", exactly two digits).
C9_MonetaryValuesAreCurrency ==
    Returned => \A f \in MonetaryFields : Value(f) = NotFound \/ IsCurrency(Value(f))

\* text with the character at index p replaced by c
Subst(text, p, c) == SubSeq(text, 1, p - 1) \o c \o SubSeq(text, p + 1, Len(text))

LowerOf == [c \in UpperSet |-> Ch(LowerLetters, CHOOSE i \in 1..26 : Ch(UpperLetters, i) = c)]
ToggleCase(c) == IF c \in LowerSet THEN UpperOf[c] ELSE IF c \in UpperSet THEN LowerOf[c] ELSE c

\* C7: every rule matches case-insensitively and across line breaks: in a
\* text where a field is found, changing the case of a letter of the label, or
\* replacing a whitespace character inside the label phrase or between the
\* label and the value by a line break (the stretch between "Standard
\* Deduction" / "Professional Tax" / "Tax on employment" and "u/s 16(...)"
\* included), leaves the extracted value unchanged.
C7_CaseAndLineBreakInsensitive ==
    Returned =>
        \A f \in CanonicalFieldNames :
            Value(f) # NotFound =>
                LET m == Match(input.str, RegexOf(f))
                IN  \A p \in m.index..(m.cap[1] - 1) :
                        LET c == Ch(input.str, p)
                        IN  /\ c \in SpaceSet =>
                                 extract(Subst(input.str, p, "\n"), RegexOf(f)) = Value(f)
                            /\ c \in LowerSet \cup UpperSet =>
                                 extract(Subst(input.str, p, ToggleCase(c)), RegexOf(f)) = Value(f)

\* the accepted wordings of a label: field, one wording, the other wording
LabelVariants ==
    { <<"employerName", "Name of Employer", "Name of the Employer">>,
      <<"employerPAN", "PAN of Deductor", "PAN of the Deductor">>,
      <<"employeePAN", "PAN of Employee", "PAN of the Employee">>,
      <<"totalTDS", "Total Tax Deducted", "Total Tax Deducted at Source">>,
      <<"professionalTax", "Tax on employment u/s 16(iii)", "Professional Tax u/s 16(iii)">> }

\* a switch of wording, in either direction
Switches ==
    {[field |-> v[1], from |-> v[2], to |-> v[3]] : v \in LabelVariants}
        \cup {[field |-> v[1], from |-> v[3], to |-> v[2]] : v \in LabelVariants}

OccursAt(text, s, p) == p + Len(s) - 1 <= Len(text) /\ SubSeq(text, p, p + Len(s) - 1) = s

\* text with the wording from, which occurs at index p, replaced by the wording to
Switch(text, p, from, to) == SubSeq(text, 1, p - 1) \o to \o SubSeq(text, p + Len(from), Len(text))

\* C8: label variants extract identically: switching an occurrence of a label
\* between its accepted wordings ("Name of Employer" / "Name of the Employer",
\* "PAN of Employee/Deductor" / "PAN of the Employee/Deductor", "Total Tax
\* Deducted" / "Total Tax Deducted at Source", "Tax on employment u/s 16(iii)"
\* / "Professional Tax u/s 16(iii)") leaves the value of that field unchanged.
C8_LabelVariantsAgree ==
    Returned =>
        \A sw \in Switches :
            \A p \in 1..Len(input.str) :
                OccursAt(input.str, sw.from, p) =>
                    extract(Switch(input.str, p, sw.from, sw.to), RegexOf(sw.field))
                        = Value(sw.field)

\* both professional-tax wordings followed by 2,000.00 give "2,000.00", and a
\* PAN label with and without "the" gives the same found value
C8_Witness ==
    /\ Returned
    /\ Value("professionalTax") = "2,000.00"
    /\ \E sw \in Switches :
          /\ sw.field = "professionalTax"
          /\ OccursAt(input.str, sw.from, 1)
          /\ extract(Switch(input.str, 1, sw.from, sw.to), professionalTaxRegex) = "2,000.00"

\* the index after \s*[:\-]?\s* read from index k
AfterSeparator(text, k) ==
    LET k1 == k + RunLen(text, "space", k, FALSE, 0)
        k2 == IF k1 <= Len(text) /\ Ch(text, k1) \in {":", "-"} THEN k1 + 1 ELSE k1
    IN  k2 + RunLen(text, "space", k2, FALSE, 0)

\* v is the 10 characters that follow an occurrence of f's label and the
\* optional separator
FollowsLabel(text, f, v) ==
    \E i \in 1..Len(text) :
        LET r == Run(text, LabelOf(f), i, NoCapture)
        IN  /\ r.ok
            /\ AfterSeparator(text, r.end) + 9 <= Len(text)
            /\ SubSeq(text, AfterSeparator(text, r.end), AfterSeparator(text, r.end) + 9) = v

----------------------------------------------------------------------------
(* Texts in which one label occurs several times, each time followed by a  *)
(* value (or by nothing that qualifies)                                    *)

MaxOccurrences == 2

RepeatLabels ==
    { "TAN", "PAN of the Deductor", "PAN of Employee", "Assessment Year", "Gross Salary",
      "Standard Deduction u/s 16(ia)", "Tax on total income", "Total Tax Deducted" }

RepeatValues ==
    { " (see annexure)\n", ": ABCDE1234F\n", " - ZYXWV9876K ", " 2024-25\n",
      " Rs. 1,23,456.00\n", " 2,000.00 " }

RECURSIVE Occurrences(_, _)
\* the texts made of n occurrences of label l, each followed by a value
Occurrences(l, n) ==
    IF n = 0 THEN {""} ELSE {l \o v \o t : v \in RepeatValues, t \in Occurrences(l, n - 1)}

\* the later occurrences that may follow the first one
LaterOccurrences(l) == UNION {Occurrences(l, n) : n \in 1..(MaxOccurrences - 1)}

RepeatTexts == UNION {Occurrences(l, n) : l \in RepeatLabels, n \in 2..MaxOccurrences}

InitRepeat ==
    /\ input \in {StringInput(t) : t \in RepeatTexts}
    /\ pc = "call"
    /\ result = <<>>
    /\ PageInit
    /\ FormInit

SpecRepeat == InitRepeat /\ [][ExtractDetailsReturns]_vars

\* C11: when the text is a first occurrence of a label with a qualifying value
\* followed by later occurrences of the same label, every field gets the value
\* extracted from the first occurrence alone, never one of a later occurrence.
C11_FirstOccurrenceWins ==
    Returned =>
        \A l \in RepeatLabels, v \in RepeatValues :
            OccursAt(input.str, l \o v, 1) =>
                \A later \in LaterOccurrences(l) :
                    input.str = l \o v \o later =>
                        \A f \in CanonicalFieldNames :
                            extract(l \o v, RegexOf(f)) # NotFound =>
                                Value(f) = extract(l \o v, RegexOf(f))

\* a label occurs twice with two different qualifying values and the field has
\* the first one
C11_Witness ==
    /\ Returned
    /\ \E l \in RepeatLabels, v \in RepeatValues :
         \E later \in LaterOccurrences(l) :
            /\ OccursAt(input.str, l \o v, 1)
            /\ input.str = l \o v \o later
            /\ \E f \in CanonicalFieldNames :
                 /\ extract(l \o v, RegexOf(f)) # NotFound
                 /\ extract(later, RegexOf(f)) # NotFound
                 /\ extract(later, RegexOf(f)) # extract(l \o v, RegexOf(f))
                 /\ Value(f) = extract(l \o v, RegexOf(f))

----------------------------------------------------------------------------
(* The values extractDetails returns are cleaned                           *)

\* a non-empty string without surrounding whitespace that starts with a letter
\* or a digit
IsCleanValue(s) ==
    /\ Len(s) > 0
    /\ Ch(s, 1) \in AlnumSet
    /\ Ch(s, Len(s)) \notin SpaceSet

\* the text of capture group 1 of a field's rule on text ("" without one)
RawCapture(text, f) ==
    LET match == Match(text, RegexOf(f))
    IN  IF match.found /\ match.cap # NoCapture THEN Group1(text, match) ELSE ""

\* C12: every value of the mapping extractDetails returns is either the sentinel
\* "Not Found" or a cleaned value: non-empty, no leading or trailing whitespace,
\* first character a letter or digit; no value is the empty string.
C12_ValuesAreCleanOrNotFound ==
    Returned =>
        \A i \in 1..Len(result) :
            result[i].value = NotFound \/ IsCleanValue(result[i].value)

\* a field whose raw capture has a leading non-alphanumeric run and whose value
\* is the capture without it
C12_Witness ==
    /\ Returned
    /\ \E f \in CanonicalFieldNames :
         /\ RawCapture(input.str, f) # ""
         /\ ~IsCleanValue(RawCapture(input.str, f))
         /\ Value(f) # NotFound
         /\ IsCleanValue(Value(f))

----------------------------------------------------------------------------
(* The cleaning step of extract (src/file_return.js:107) applied to raw    *)
(* captures, and applied again to its own result                           *)

MaxRawLen == 4

RawChars == {" ", "\n", ":", "-", ".", "A", "z", "1"}

RECURSIVE RawOf(_)
\* the strings of n characters
RawOf(n) == IF n = 0 THEN {""} ELSE {c \o s : c \in RawChars, s \in RawOf(n - 1)}

RawCaptures == UNION {RawOf(n) : n \in 0..MaxRawLen}

InitClean ==
    /\ input \in {StringInput(raw) : raw \in RawCaptures}
    /\ pc = "raw"
    /\ result = ""
    /\ PageInit
    /\ FormInit

\* match[1].trim().replace(/^[^a-zA-Z0-9]+/, '').trim() on the raw capture
CleanRaw ==
    /\ pc = "raw"
    /\ result' = Clean(input.str)
    /\ pc' = "cleaned"
    /\ UNCHANGED <<input, pageVars, formVars>>

\* the same expression on the value it produced
CleanAgain ==
    /\ pc = "cleaned"
    /\ result' = Clean(result)
    /\ pc' = "recleaned"
    /\ UNCHANGED <<input, pageVars, formVars>>

NextClean == CleanRaw \/ CleanAgain

SpecClean == InitClean /\ [][NextClean]_vars

\* no leading non-alphanumeric character and no surrounding whitespace
AlreadyClean(s) ==
    Len(s) > 0 => (Ch(s, 1) \in AlnumSet /\ Ch(s, Len(s)) \notin SpaceSet)

\* C13: cleaning is idempotent: cleaning an already-clean value returns it
\* unchanged, and clean(clean(x)) = clean(x) for every raw capture x.
C13_CleanIdempotent ==
    /\ (pc = "raw" /\ AlreadyClean(input.str)) => Clean(input.str) = input.str
    /\ pc = "cleaned" => (AlreadyClean(result) /\ Clean(result) = result)
    /\ pc = "recleaned" => result = Clean(input.str)

\* a raw capture that cleaning changed, cleaned a second time
C13_Witness ==
    /\ pc = "recleaned"
    /\ input.str = " :A "
    /\ result = "A"

----------------------------------------------------------------------------
(* displayReport (src/file_return.js:43-93): the table put into #output    *)

\* key in obj
Has(obj, key) == \E i \in 1..Len(obj) : obj[i].key = key

Cell(colSpan, content) == [colSpan |-> colSpan, content |-> content]
Row(className, cells) == [className |-> className, cells |-> cells]

\* data[field.key] || "Not Found": an absent key reads undefined, and undefined
\* and "" are falsy
ValueOrNotFound(data, key) ==
    IF Has(data, key) /\ Get(data, key) # "" THEN Get(data, key) ELSE NotFound

\* every field row shows "Not Found"
reportRowNotFoundOnly(data, field) ==
    IF field.type = "header"
    THEN Row("table-light", <<Cell(2, "<strong>" \o field.label \o "</strong>")>>)
    ELSE Row("", <<Cell(1, field.label), Cell(1, NotFound)>>)
\* the body of the forEach callback: the row inserted for one entry of reportFields
reportRow(data, field) ==
    IF field.type = "header"
    THEN Row("table-light", <<Cell(2, "<strong>" \o field.label \o "</strong>")>>)
    ELSE Row("", <<Cell(1, field.label), Cell(1, ValueOrNotFound(data, field.key))>>)

\* the table displayReport builds: the column headings and one body row per
\* entry of reportFields, in order
reportTable(data) ==
    [tag |-> "table", text |-> "", thead |-> <<"Field", "Value">>,
     tbody |-> [i \in 1..Len(reportFields) |-> reportRow(data, reportFields[i])]]

\* a text node, what assigning textContent leaves in an element
TextNode(s) == [tag |-> "#text", text |-> s, thead |-> <<>>, tbody |-> <<>>]

\* Data mappings: every field absent, empty or valued alike, except one field
ValueKinds == {"absent", "empty", "valued"}

\* the properties of a mapping in which field f is of kind k and the other
\* fields of kind others
DataOf(f, k, others) ==
    LET kind(g) == IF g = f THEN k ELSE others
        present(p) == p.value # "absent"
        all == [i \in 1..Len(CanonicalOrder) |->
                   Prop(CanonicalOrder[i],
                        CASE kind(CanonicalOrder[i]) = "absent" -> "absent"
                          [] kind(CanonicalOrder[i]) = "empty" -> ""
                          [] OTHER -> "v-" \o CanonicalOrder[i])]
    IN  SelectSeq(all, present)

DataMappings ==
    {DataOf(f, k, others) : f \in CanonicalFieldNames, k \in ValueKinds, others \in ValueKinds}

\* what #output holds before the call
EarlierOutputs == {<<>>, <<TextNode("earlier message")>>, <<reportTable(<<>>)>>}

InitReport ==
    /\ input \in DataMappings
    /\ pc = "call"
    /\ result = <<>>
    /\ loader = "hidden"
    /\ resultPanel = "hidden"
    /\ output \in EarlierOutputs
    /\ runs = <<>>
    /\ FormInit

\* displayReport(input): #output is cleared and the table appended
DisplayReport ==
    /\ pc = "call"
    /\ output' = <<reportTable(input)>>
    /\ pc' = "returned"
    /\ UNCHANGED <<input, result, loader, resultPanel, runs, formVars>>

SpecReport == InitReport /\ [][DisplayReport]_vars

SectionHeaders == <<"Personal & Employer Information", "Income & Deductions", "Tax Calculation">>

IsHeaderRow(row) == Len(row.cells) = 1
IsValueRow(row) == Len(row.cells) = 2

\* the content of the header rows, in table order
HeaderContents(rows) ==
    LET hs == SelectSeq(rows, IsHeaderRow) IN [i \in 1..Len(hs) |-> hs[i].cells[1].content]

RECURSIVE SectionLength(_, _)
\* the number of rows from index i up to the next header row
SectionLength(rows, i) ==
    IF i > Len(rows) \/ IsHeaderRow(rows[i]) THEN 0 ELSE 1 + SectionLength(rows, i + 1)

\* C14: for any data mapping, with missing or empty-valued keys or not, #output
\* holds one table whose body has the three section headers in order, each
\* followed by one row per field of its section in the declared order: exactly 3
\* header rows and 15 field rows, each field row showing the field's value, or
\* "Not Found" when the value is absent or empty.
C14_ReportLayout ==
    Returned =>
        /\ Len(output) = 1
        /\ output[1].tag = "table"
        /\ LET rows == output[1].tbody
           IN  /\ Len(rows) = 18
               /\ Len(SelectSeq(rows, IsHeaderRow)) = 3
               /\ Len(SelectSeq(rows, IsValueRow)) = 15
               /\ HeaderContents(rows) =
                      [i \in 1..3 |-> "<strong>" \o SectionHeaders[i] \o "</strong>"]
               /\ IsHeaderRow(rows[1]) /\ SectionLength(rows, 2) = 6
               /\ IsHeaderRow(rows[8]) /\ SectionLength(rows, 9) = 6
               /\ IsHeaderRow(rows[15]) /\ SectionLength(rows, 16) = 3
               /\ \A i \in 1..18 :
                     IsValueRow(rows[i]) =>
                        /\ reportFields[i].type = "field"
                        /\ rows[i].cells[1].content = reportFields[i].label
                        /\ rows[i].cells[2].content =
                              IF /\ Has(input, reportFields[i].key)
                                 /\ Get(input, reportFields[i].key) # ""
                              THEN Get(input, reportFields[i].key)
                              ELSE NotFound

\* a mapping with one key missing and one empty-valued: both rows show
\* "Not Found" next to rows showing their values, over content that was there
C14_Witness ==
    /\ Returned
    /\ ~Has(input, "TAN")
    /\ \E f \in CanonicalFieldNames : Has(input, f) /\ Get(input, f) # ""
    /\ \E i, j \in 1..18 :
         /\ IsValueRow(output[1].tbody[i]) /\ output[1].tbody[i].cells[2].content = NotFound
         /\ IsValueRow(output[1].tbody[j]) /\ output[1].tbody[j].cells[2].content # NotFound

----------------------------------------------------------------------------
(* The Form 16 analysis page (src/form_16_20255.js)                        *)

MaxCalls == 2

FileNames == {"a.pdf", "b.pdf"}

\* a File object of the file input
File(name) == JSObject(<<Prop("name", name)>>)

\* the JSON the server extracts from a file
Analysis(name) == JSObject(<<Prop("source_file", name)>>)

\* the values res.json() can yield for an upload of the file: the analysis, and
\* the bodies {}, null and 0
ServerBodies(name) == {Analysis(name), JSObject(<<>>), JSNull, JSZero}

\* an Error: its name and its message
Err(name, message) == [name |-> name, message |-> message]
\* String(err)
ErrString(err) == err.name \o ": " \o err.message

\* fetch rejects, or the response is not ok (line 89), or res.json() rejects
UploadErrors ==
    { Err("TypeError", "Failed to fetch"),
      Err("Error", "Analysis failed: 500 Internal Server Error"),
      Err("SyntaxError", "Unexpected end of JSON input") }

\* fetch rejects, or the response is not ok (line 120), or res.blob() rejects
GenerateErrors ==
    { Err("TypeError", "Failed to fetch"),
      Err("Error", "Failed to generate PDF: Internal Server Error") }

\* getDocument, getPage or render rejects
RenderError == Err("InvalidPDFException", "Invalid PDF structure.")

RECURSIVE JoinProps(_)
JoinProps(props) ==
    IF Len(props) = 0 THEN ""
    ELSE "\"" \o props[1].key \o "\":\"" \o props[1].value \o "\""
         \o (IF Len(props) > 1 THEN "," ELSE "") \o JoinProps(Tail(props))

\* JSON.stringify(v)
Stringify(v) ==
    CASE v.t = "null" -> "null"
      [] v.t = "zero" -> "0"
      [] OTHER -> "{" \o JoinProps(v.props) \o "}"

RECURSIVE Prettify(_, _)
\* key.replace(/_/g, ' ').replace(/\b\w/g, l => l.toUpperCase()): prev is the
\* character before key
Prettify(key, prev) ==
    IF Len(key) = 0 THEN ""
    ELSE LET c == IF Ch(key, 1) = "_" THEN " " ELSE Ch(key, 1)
             atBoundary == prev \notin AlnumSet
         IN  (IF atBoundary /\ c \in LowerSet THEN UpperOf[c] ELSE c)
             \o Prettify(SubSeq(key, 2, Len(key)), c)

\* what renderAnalysisReport(data) leaves in #jsonOut
renderAnalysisReport(data) ==
    IF Falsy(data) \/ Len(data.props) = 0
    THEN <<TextNode("No data was extracted from the document.")>>
    ELSE << [tag |-> "table", text |-> "", thead |-> <<"Field", "Value">>,
             tbody |-> [i \in 1..Len(data.props) |->
                           Row("", <<Cell(1, Prettify(data.props[i].key, "")),
                                     Cell(1, data.props[i].value)>>)]] >>

\* a handler call suspended at an await: the function, the await, the file it
\* uploads (upload) and the request body it sent (generate)
Call(fn, at, file, body) == [fn |-> fn, pc |-> at, file |-> file, body |-> body]

\* calls without the i-th call
Without(i) == SubSeq(calls, 1, i - 1) \o SubSeq(calls, i + 1, Len(calls))
\* calls with the i-th call moved to the await at
Moved(i, at) == [calls EXCEPT ![i].pc = at]

InFlight(fn) == {i \in 1..Len(calls) : calls[i].fn = fn}

\* the status the caller of renderPdfUrlToCanvas sets when the call returns
ReadyStatus(fn) ==
    IF fn = "generatePdfAndPreview"
    THEN "Generated PDF preview is ready."
    ELSE "Uploaded PDF is shown in the preview canvas."

\* the user chooses a file in #pdfUpload
SelectFile(name) ==
    /\ pdfUploadEl' = File(name)
    /\ UNCHANGED <<statusEl, outputEl, lastAnalysisData, lastUploadedFile, btnGenerate,
                   btnShowOriginal, btnDownloadPng, calls>>
    /\ UNCHANGED <<callVars, pageVars>>

\* click on #btnFetch: uploadAndAnalyzePdf up to its first await
uploadAndAnalyzePdf ==
    /\ IF pdfUploadEl = JSNull
       THEN /\ statusEl' = "Please select a PDF file to analyze."
            /\ UNCHANGED <<outputEl, lastUploadedFile, calls>>
       ELSE /\ Len(calls) < MaxCalls
            /\ lastUploadedFile' = pdfUploadEl
            /\ statusEl' = "Uploading and analyzing PDF..."
            /\ outputEl' = <<>>
            /\ calls' = Append(calls, Call("uploadAndAnalyzePdf", "fetch",
                                           pdfUploadEl.props[1].value, ""))
    /\ UNCHANGED <<pdfUploadEl, lastAnalysisData, btnGenerate, btnShowOriginal, btnDownloadPng>>
    /\ UNCHANGED <<callVars, pageVars>>

\* the upload request is answered with an ok response: on to await res.json()
UploadResponds(i) ==
    /\ calls[i].fn = "uploadAndAnalyzePdf"
    /\ calls[i].pc = "fetch"
    /\ calls' = Moved(i, "json")
    /\ UNCHANGED <<pdfUploadEl, statusEl, outputEl, lastAnalysisData, lastUploadedFile,
                   btnGenerate, btnShowOriginal, btnDownloadPng>>
    /\ UNCHANGED <<callVars, pageVars>>

\* res.json() yields data: lines 91-96
UploadSucceeds(i, data) ==
    /\ calls[i].fn = "uploadAndAnalyzePdf"
    /\ calls[i].pc = "json"
    /\ data \in ServerBodies(calls[i].file)
    /\ lastAnalysisData' = data
    /\ outputEl' = renderAnalysisReport(data)
    /\ statusEl' = "Analysis complete. See the report below."
    /\ btnGenerate' = Disabled(FALSE)
    /\ btnShowOriginal' = Disabled(FALSE)
    /\ calls' = Without(i)
    /\ UNCHANGED <<pdfUploadEl, lastUploadedFile, btnDownloadPng>>
    /\ UNCHANGED <<callVars, pageVars>>

\* fetch rejects or the response is not ok, or res.json() rejects: the catch
\* block, lines 97-102
UploadFails(i, err) ==
    /\ calls[i].fn = "uploadAndAnalyzePdf"
    /\ \/ calls[i].pc = "fetch" /\ err \in UploadErrors /\ err.name # "SyntaxError"
       \/ calls[i].pc = "json" /\ err \in UploadErrors /\ err.name = "SyntaxError"
    /\ outputEl' = <<TextNode(ErrString(err))>>
    /\ statusEl' = "Error: " \o err.message
    /\ lastAnalysisData' = JSNull
    /\ btnGenerate' = Disabled(TRUE)
    /\ calls' = Without(i)
    /\ UNCHANGED <<pdfUploadEl, lastUploadedFile, btnShowOriginal, btnDownloadPng>>
    /\ UNCHANGED <<callVars, pageVars>>

\* generatePdfAndPreview without its guard: the request is sent whatever
\* lastAnalysisData is
generateUnguarded ==
    /\ ~btnGenerate.disabled
    /\ Len(calls) < MaxCalls
    /\ statusEl' = "Generating summary PDF on the server..."
    /\ calls' = Append(calls, Call("generatePdfAndPreview", "fetch", "",
                                   Stringify(lastAnalysisData)))
    /\ UNCHANGED <<pdfUploadEl, outputEl, lastAnalysisData, lastUploadedFile, btnGenerate,
                   btnShowOriginal, btnDownloadPng>>
    /\ UNCHANGED <<callVars, pageVars>>
\* click on #btnGenerate (an enabled button): generatePdfAndPreview up to its
\* first await
generatePdfAndPreview ==
    /\ ~btnGenerate.disabled
    /\ IF Falsy(lastAnalysisData)
       THEN /\ statusEl' = "You must analyze a document first."
            /\ UNCHANGED calls
       ELSE /\ Len(calls) < MaxCalls
            /\ statusEl' = "Generating summary PDF on the server..."
            /\ calls' = Append(calls, Call("generatePdfAndPreview", "fetch", "",
                                           Stringify(lastAnalysisData)))
    /\ UNCHANGED <<pdfUploadEl, outputEl, lastAnalysisData, lastUploadedFile, btnGenerate,
                   btnShowOriginal, btnDownloadPng>>
    /\ UNCHANGED <<callVars, pageVars>>

\* the generate request is answered with an ok response: on to await res.blob()
GenerateResponds(i) ==
    /\ calls[i].fn = "generatePdfAndPreview"
    /\ calls[i].pc = "fetch"
    /\ calls' = Moved(i, "blob")
    /\ UNCHANGED <<pdfUploadEl, statusEl, outputEl, lastAnalysisData, lastUploadedFile,
                   btnGenerate, btnShowOriginal, btnDownloadPng>>
    /\ UNCHANGED <<callVars, pageVars>>

\* res.blob() yields the PDF: renderPdfUrlToCanvas(url) runs up to its first await
GenerateBlobArrives(i) ==
    /\ calls[i].fn = "generatePdfAndPreview"
    /\ calls[i].pc = "blob"
    /\ statusEl' = "Rendering PDF preview..."
    /\ calls' = Moved(i, "getDocument")
    /\ UNCHANGED <<pdfUploadEl, outputEl, lastAnalysisData, lastUploadedFile, btnGenerate,
                   btnShowOriginal, btnDownloadPng>>
    /\ UNCHANGED <<callVars, pageVars>>

\* fetch rejects or the response is not ok, or res.blob() rejects: the catch
\* block, line 126
GenerateFails(i, err) ==
    /\ calls[i].fn = "generatePdfAndPreview"
    /\ \/ calls[i].pc = "fetch" /\ err \in GenerateErrors
       \/ calls[i].pc = "blob" /\ err \in GenerateErrors /\ err.name = "TypeError"
    /\ statusEl' = "Error: " \o err.message
    /\ calls' = Without(i)
    /\ UNCHANGED <<pdfUploadEl, outputEl, lastAnalysisData, lastUploadedFile, btnGenerate,
                   btnShowOriginal, btnDownloadPng>>
    /\ UNCHANGED <<callVars, pageVars>>

\* click on #btnShowOriginal (an enabled button): showUploadedPdf, and in it
\* renderPdfUrlToCanvas(url), up to the first await
showUploadedPdf ==
    /\ ~btnShowOriginal.disabled
    /\ IF Falsy(lastUploadedFile)
       THEN /\ statusEl' = "Please upload a PDF file first."
            /\ UNCHANGED calls
       ELSE /\ Len(calls) < MaxCalls
            /\ statusEl' = "Rendering PDF preview..."
            /\ calls' = Append(calls, Call("showUploadedPdf", "getDocument", "", ""))
    /\ UNCHANGED <<pdfUploadEl, outputEl, lastAnalysisData, lastUploadedFile, btnGenerate,
                   btnShowOriginal, btnDownloadPng>>
    /\ UNCHANGED <<callVars, pageVars>>

RenderAwaits == <<"getDocument", "getPage", "render">>
IsRendering(c) == \E k \in 1..Len(RenderAwaits) : c.pc = RenderAwaits[k]
NextAwait(at) == RenderAwaits[(CHOOSE k \in 1..Len(RenderAwaits) : RenderAwaits[k] = at) + 1]

\* renderPdfUrlToCanvas: loadingTask.promise or pdf.getPage(1) is fulfilled
RenderAdvances(i) ==
    /\ calls[i].pc \in {"getDocument", "getPage"}
    /\ calls' = Moved(i, NextAwait(calls[i].pc))
    /\ UNCHANGED <<pdfUploadEl, statusEl, outputEl, lastAnalysisData, lastUploadedFile,
                   btnGenerate, btnShowOriginal, btnDownloadPng>>
    /\ UNCHANGED <<callVars, pageVars>>

\* renderPdfUrlToCanvas: an await rejects. Its catch block (lines 147-150) sets
\* the status 'Error rendering PDF preview: ...' and disables #btnDownloadPng;
\* the function then returns normally, and the caller, resumed in the same
\* turn of the event loop, sets its own status (line 124 or 165)
RenderFails(i) ==
    /\ IsRendering(calls[i])
    /\ btnDownloadPng' = Disabled(TRUE)
    /\ LET caught == "Error rendering PDF preview: " \o RenderError.message
           resumed == ReadyStatus(calls[i].fn)
       IN  statusEl' = resumed
    /\ calls' = Without(i)
    /\ UNCHANGED <<pdfUploadEl, outputEl, lastAnalysisData, lastUploadedFile, btnGenerate,
                   btnShowOriginal>>
    /\ UNCHANGED <<callVars, pageVars>>

\* renderPdfUrlToCanvas: page.render(...).promise is fulfilled (lines 145-146),
\* then the caller resumes (line 124 or 165)
RenderCompletes(i) ==
    /\ calls[i].pc = "render"
    /\ btnDownloadPng' = Disabled(FALSE)
    /\ LET rendered == "Preview rendered."
           resumed == ReadyStatus(calls[i].fn)
       IN  statusEl' = resumed
    /\ calls' = Without(i)
    /\ UNCHANGED <<pdfUploadEl, outputEl, lastAnalysisData, lastUploadedFile, btnGenerate,
                   btnShowOriginal>>
    /\ UNCHANGED <<callVars, pageVars>>

\* click on #btnDownloadPng (an enabled button)
downloadCanvasAsPng ==
    /\ ~btnDownloadPng.disabled
    /\ statusEl' = "PNG preview downloaded."
    /\ UNCHANGED <<pdfUploadEl, outputEl, lastAnalysisData, lastUploadedFile, btnGenerate,
                   btnShowOriginal, btnDownloadPng, calls>>
    /\ UNCHANGED <<callVars, pageVars>>

InitForm ==
    /\ input = NullInput
    /\ pc = "idle"
    /\ result = <<>>
    /\ PageInit
    /\ FormInit

NextForm ==
    \/ \E name \in FileNames : SelectFile(name)
    \/ uploadAndAnalyzePdf
    \/ generatePdfAndPreview
    \/ showUploadedPdf
    \/ downloadCanvasAsPng
    \/ \E i \in 1..Len(calls) : UploadResponds(i)
    \/ \E i \in 1..Len(calls) : \E data \in ServerBodies(calls[i].file) : UploadSucceeds(i, data)
    \/ \E i \in 1..Len(calls) : \E err \in UploadErrors : UploadFails(i, err)
    \/ \E i \in 1..Len(calls) : GenerateResponds(i)
    \/ \E i \in 1..Len(calls) : GenerateBlobArrives(i)
    \/ \E i \in 1..Len(calls) : \E err \in GenerateErrors : GenerateFails(i, err)
    \/ \E i \in 1..Len(calls) : RenderAdvances(i)
    \/ \E i \in 1..Len(calls) : RenderFails(i)
    \/ \E i \in 1..Len(calls) : RenderCompletes(i)

SpecForm == InitForm /\ [][NextForm]_vars

----------------------------------------------------------------------------
(* Properties of the analysis page                                         *)

IsErrorStatus(s) == Len(s) >= 5 /\ SubSeq(s, 1, 5) = "Error"

\* C15: whenever the upload request, the regeneration request or the rendering
\* of the preview fails in uploadAndAnalyzePdf, generatePdfAndPreview or
\* showUploadedPdf, the status text the operation leaves when it has finished
\* is an error message, not a success message.
C15_FailuresSurface ==
    [][\A i \in 1..Len(calls) :
          (\/ \E err \in UploadErrors : UploadFails(i, err)
           \/ \E err \in GenerateErrors : GenerateFails(i, err)
           \/ RenderFails(i))
          => IsErrorStatus(statusEl')]_vars

\* C16: once no upload is in flight, lastAnalysisData is the outcome of the
\* upload started last, the one of the file held in lastUploadedFile: it is
\* never the analysis of a file of an earlier, superseded upload.
C16_LatestUploadWins ==
    InFlight("uploadAndAnalyzePdf") = {} =>
        \A name \in FileNames :
            lastAnalysisData = Analysis(name) => lastUploadedFile = File(name)

\* C18: in every state between handler steps, whatever uploads succeeded or
\* failed and whatever JSON body the server returned, the Generate button is
\* enabled exactly when lastAnalysisData is not null.
C18_GenerateEnabledIffData ==
    (~btnGenerate.disabled) <=> (lastAnalysisData # JSNull)

\* a step that sends a regeneration request: a call of generatePdfAndPreview
\* begins to wait for its fetch
NewGenerateRequest ==
    /\ Len(calls') = Len(calls) + 1
    /\ calls'[Len(calls')].fn = "generatePdfAndPreview"
    /\ calls'[Len(calls')].pc = "fetch"

\* C19: a regeneration request is sent only when lastAnalysisData is not null,
\* and its body is the JSON text of the lastAnalysisData held at the click; a
\* click while lastAnalysisData is null sends no request and changes nothing
\* but the status text, which becomes 'You must analyze a document first.'.
C19_RequestOnlyWithData ==
    [][/\ NewGenerateRequest =>
            /\ lastAnalysisData # JSNull
            /\ calls'[Len(calls')].body = Stringify(lastAnalysisData)
            /\ SubSeq(calls', 1, Len(calls)) = calls
       /\ (generatePdfAndPreview /\ lastAnalysisData = JSNull) =>
            /\ statusEl' = "You must analyze a document first."
            /\ UNCHANGED <<pdfUploadEl, outputEl, lastAnalysisData, lastUploadedFile,
                           btnGenerate, btnShowOriginal, btnDownloadPng, calls>>]_vars

\* a request carrying the analysis held when Generate was clicked is in flight,
\* and a later click, with lastAnalysisData null by then, has sent none
C19_Witness ==
    /\ lastAnalysisData = JSNull
    /\ statusEl = "You must analyze a document first."
    /\ Len(calls) = 1
    /\ calls[1].fn = "generatePdfAndPreview"
    /\ calls[1].pc = "fetch"
    /\ \E name \in FileNames : calls[1].body = Stringify(Analysis(name))

----------------------------------------------------------------------------
(* The change handler of #pdfFile (src/file_return.js:6-37)                *)

MaxRuns == 2
MaxPages == 2

\* the text items of a page, as page.getTextContent() yields them
PageItems ==
    { <<"TAN:", "ABCDE1234F", "Assessment Year", "2024-25">>,
      <<"Gross Salary", "1,23,456.00">> }

RECURSIVE DocsOf(_)
\* the documents of n pages
DocsOf(n) == IF n = 0 THEN {<<>>} ELSE {<<p>> \o d : p \in PageItems, d \in DocsOf(n - 1)}

Documents == UNION {DocsOf(n) : n \in 1..MaxPages}

RECURSIVE Join(_, _)
\* items.join(sep)
Join(items, sep) ==
    IF Len(items) = 0 THEN ""
    ELSE IF Len(items) = 1 THEN items[1]
    ELSE items[1] \o sep \o Join(Tail(items), sep)

\* a run of the handler suspended at an await: the pages of the chosen file,
\* the loop variable i and fullText
HandlerRun(at, pages, i, fullText) == [pc |-> at, pages |-> pages, i |-> i, fullText |-> fullText]

RunsWithout(r) == SubSeq(runs, 1, r - 1) \o SubSeq(runs, r + 1, Len(runs))

ErrorMessage ==
    "An error occurred while processing the PDF file. Please ensure it is a valid document."

\* the finally block, lines 33-36
Finally ==
    /\ loader' = "hidden"
    /\ resultPanel' = "shown"

\* a change event of #pdfFile: the handler up to its first await (no file
\* chosen: it returns at line 8)
FileChange(chosen) ==
    /\ IF chosen = <<>>
       THEN UNCHANGED pageVars
       ELSE /\ Len(runs) < MaxRuns
            /\ output' = <<>>
            /\ loader' = "shown"
            /\ resultPanel' = "hidden"
            /\ runs' = Append(runs, HandlerRun("arrayBuffer", chosen, 0, ""))
    /\ UNCHANGED <<callVars, formVars>>

\* file.arrayBuffer() is fulfilled: on to getDocument(...).promise
RunReads(r) ==
    /\ runs[r].pc = "arrayBuffer"
    /\ runs' = [runs EXCEPT ![r].pc = "getDocument"]
    /\ UNCHANGED <<loader, resultPanel, output, callVars, formVars>>

\* getDocument(...).promise is fulfilled: the loop starts with page 1
RunOpens(r) ==
    /\ runs[r].pc = "getDocument"
    /\ runs' = [runs EXCEPT ![r].pc = "getPage", ![r].i = 1]
    /\ UNCHANGED <<loader, resultPanel, output, callVars, formVars>>

\* pdf.getPage(i) is fulfilled: on to page.getTextContent()
RunGetsPage(r) ==
    /\ runs[r].pc = "getPage"
    /\ runs' = [runs EXCEPT ![r].pc = "getTextContent"]
    /\ UNCHANGED <<loader, resultPanel, output, callVars, formVars>>

\* page.getTextContent() is fulfilled and pages remain: the text is appended
\* and the next page requested
RunGetsText(r) ==
    /\ runs[r].pc = "getTextContent"
    /\ runs[r].i < Len(runs[r].pages)
    /\ runs' = [runs EXCEPT ![r].pc = "getPage", ![r].i = @ + 1,
                            ![r].fullText = @ \o Join(runs[r].pages[runs[r].i], " ") \o "\n"]
    /\ UNCHANGED <<loader, resultPanel, output, callVars, formVars>>

\* page.getTextContent() is fulfilled for the last page: lines 23-28 and the
\* finally block
RunCompletes(r) ==
    /\ runs[r].pc = "getTextContent"
    /\ runs[r].i = Len(runs[r].pages)
    /\ LET fullText == runs[r].fullText \o Join(runs[r].pages[runs[r].i], " ") \o "\n"
           extracted == extractDetails(fullText)
       IN  output' = <<reportTable(extracted)>>
    /\ Finally
    /\ runs' = RunsWithout(r)
    /\ UNCHANGED <<callVars, formVars>>

\* an await rejects: the catch block and the finally block
RunFails(r) ==
    /\ output' = <<TextNode(ErrorMessage)>>
    /\ Finally
    /\ runs' = RunsWithout(r)
    /\ UNCHANGED <<callVars, formVars>>

InitPage ==
    /\ input = NullInput
    /\ pc = "idle"
    /\ result = <<>>
    /\ PageInit
    /\ FormInit

NextPage ==
    \/ \E chosen \in Documents \cup {<<>>} : FileChange(chosen)
    \/ \E r \in 1..Len(runs) : RunReads(r)
    \/ \E r \in 1..Len(runs) : RunOpens(r)
    \/ \E r \in 1..Len(runs) : RunGetsPage(r)
    \/ \E r \in 1..Len(runs) : RunGetsText(r)
    \/ \E r \in 1..Len(runs) : RunCompletes(r)
    \/ \E r \in 1..Len(runs) : RunFails(r)

SpecPage == InitPage /\ [][NextPage]_vars

\* C17: in every reachable state, also when a second file is chosen while an
\* earlier one is being processed, the loader is shown and the result panel
\* hidden while any run of the handler is in flight.
C17_BusyWhileInFlight ==
    Len(runs) > 0 => (loader = "shown" /\ resultPanel = "hidden")

====
